---- MODULE Spec2Model ----
(***************************************************************************)
(* Model of the DestinyEngine of src/life_terminal.py: seed derivation,    *)
(* element counting, favored element, auxiliary tags, archetype pattern    *)
(* and the two series generators, together with the two process-wide       *)
(* random generators (module `random` and `numpy.random`) they share.      *)
(*                                                                         *)
(* Numbers.  Python floats are modelled as binary floating point numbers   *)
(* with a MantBits-bit significand, round-to-nearest, ties-to-even.  A     *)
(* value v is held as the integer v * Grid; below 2^MantBits grid units    *)
(* every grid point is representable (the subnormal range of the format).  *)
(*                                                                         *)
(* Elements are named in the order of the dict of _calc_wuxing:            *)
(*   Metal = 金, Wood = 木, Water = 水, Fire = 火, Earth = 土.             *)
(* Stems 甲..癸 are 0..9 and branches 子..亥 are 0..11.                    *)
(***************************************************************************)
EXTENDS Integers, Sequences, FiniteSets, TLC

-----------------------------------------------------------------------------
(* Bounds of the model *)

\* significand width of the modelled float format (53 in CPython)
MantBits == 7
\* number of states of each modelled pseudo-random generator
RngMod == 20
\* hash(...) yields a value in -HashMod/2 .. HashMod/2 - 1 (2^64 values in CPython)
HashMod == 64
\* number of calls made on engines in one behaviour
MaxSteps == 4
\* number of results of main() kept
MaxRuns == 2
\* width of the seed handed to np.random.seed (2**32 at line 120)
NpSeedMod == 16

\* grid units per 1.0
Grid == 4

-----------------------------------------------------------------------------
(* Float arithmetic *)

Abs(n) == IF n < 0 THEN -n ELSE n

Max(a, b) == IF a >= b THEN a ELSE b

Min(a, b) == IF a <= b THEN a ELSE b

Pow2Table == << 1, 2, 4, 8, 16, 32, 64, 128, 256, 512, 1024, 2048, 4096, 8192,
                16384, 32768, 65536, 131072, 262144, 524288, 1048576 >>

\* 2^k for k in 0 .. 20
Pow2(k) == Pow2Table[k + 1]

\* the least b >= k with a < 2^b
RECURSIVE BitLenFrom(_, _)
BitLenFrom(a, k) == IF a < Pow2(k) THEN k ELSE BitLenFrom(a, k + 1)

\* The float nearest to num / 2^shift grid units, ties to the even significand:
\* the result keeps at most MantBits significant bits and is a whole number
\* of grid units.
Round(num, shift) ==
    LET a == IF num < 0 THEN -num ELSE num
    IN  IF shift = 0 /\ a < Pow2(MantBits) THEN num
        ELSE LET bits == BitLenFrom(a, MantBits)
                 k == IF bits - MantBits > shift THEN bits - MantBits ELSE shift
                 p == Pow2(k)
                 q == a \div p
                 r == a % p
                 up == 2 * r > p \/ (2 * r = p /\ q % 2 = 1)
                 m == (IF up THEN q + 1 ELSE q) * Pow2(k - shift)
             IN  IF num < 0 THEN -m ELSE m

\* a + b
FAdd(a, b) == Round(a + b, 0)

\* a - b
FSub(a, b) == Round(a - b, 0)

\* a * 1.5
FMul15(a) == Round(3 * a, 1)

-----------------------------------------------------------------------------
(* The process-wide generators.  A generator is [s |-> state, g |-> cached *)
(* second Gaussian deviate or NoGauss].                                    *)

NoGauss == -1000

\* the deviates a Gaussian draw can yield, in quarters of sigma
Deviate == << -9, -6, -4, -3, -2, -1, 0, 1, 2, 3, 4, 6, 9 >>

\* one step of the underlying generator
Advance(s) == (7 * s + 3) % RngMod

\* random.seed(a): an int seed is used by absolute value; the cached
\* Gaussian deviate is dropped
random_seed(a) == [s |-> (3 * Abs(a) + 1) % RngMod, g |-> NoGauss]

\* np.random.seed(a), 0 <= a < 2^32: the cached deviate is dropped too
np_random_seed(a) == [s |-> (3 * a + 2) % RngMod, g |-> NoGauss]

\* random.random(): the uniform draw u stands for u / RngMod in [0, 1)
random_random(st) ==
    LET s1 == Advance(st.s)
    IN  [u |-> s1, st |-> [s |-> s1, g |-> st.g]]

\* random.choice(seq) over a sequence of length n: the index chosen
random_choice(st, n) ==
    LET r == random_random(st)
    IN  [i |-> 1 + ((r.u * n) \div RngMod), st |-> r.st]

\* random.gauss(0, sigma) and np.random.normal(0, sigma): deviates are made in
\* pairs from two uniform draws, the second one is cached for the next call
Gauss(st, sigma) ==
    IF st.g = NoGauss
    THEN LET r1 == random_random(st)
             r2 == random_random(r1.st)
             z  == Deviate[1 + ((r1.u + r2.u) % Len(Deviate))]
             z2 == Deviate[1 + ((r1.u + 2 * r2.u + 5) % Len(Deviate))]
         IN  [x |-> Round(z * sigma, 2), st |-> [s |-> r2.st.s, g |-> z2]]
    ELSE [x |-> Round(st.g * sigma, 2), st |-> [st EXCEPT !.g = NoGauss]]

-----------------------------------------------------------------------------
(* hash() of the tuple of line 118.  str hashes are salted per process     *)
(* (PYTHONHASHSEED is random unless set); int and float hashes are not.    *)

Salts == {1, 2}

\* the salt of a process that has not started
NoSalt == 0

StrHash(pillar, salt) ==
    ((pillar[1] * 12 + pillar[2] + 1) * (2 * salt + 1) + 5 * salt) % HashMod

RECURSIVE TupleAcc(_)
TupleAcc(hs) ==
    IF hs = << >> THEN 7
    ELSE (31 * TupleAcc(SubSeq(hs, 1, Len(hs) - 1)) + hs[Len(hs)]) % HashMod

\* the hash of a tuple whose items hash to hs, as a signed value
TupleHash(hs) ==
    LET h == TupleAcc(hs)
    IN  IF h >= HashMod \div 2 THEN h - HashMod ELSE h

-----------------------------------------------------------------------------
(* The calendar adapter (lunar_python): birth date and hour to pillars.    *)
(* A pillar is <<stem, branch>>.                                           *)

\* 1990-01-01: 己巳 丙子 丙寅; 2000-01-01: 己卯 丙子 戊午
DatePillars(b_date) ==
    IF b_date = "1990-01-01" THEN << <<5, 5>>, <<2, 0>>, <<2, 2>> >>
    ELSE << <<5, 3>>, <<2, 0>>, <<4, 6>> >>

YearOf(b_date) == IF b_date = "1990-01-01" THEN 1990 ELSE 2000

\* the hour pillar: one branch per two hours, the stem follows the day stem
TimePillar(day_gan, hour) ==
    LET zhi == ((hour + 1) \div 2) % 12
    IN  << (2 * day_gan + zhi) % 10, zhi >>

getEightChar(b_date, hour) ==
    LET ymd == DatePillars(b_date)
    IN  [year |-> ymd[1], month |-> ymd[2], day |-> ymd[3],
         time |-> TimePillar(ymd[3][1], hour)]

-----------------------------------------------------------------------------
(* class DestinyEngine *)

\* keys of the dict cnt of _calc_wuxing, in insertion order
ElementOrder == << "Metal", "Wood", "Water", "Fire", "Earth" >>

Elements == {ElementOrder[i] : i \in 1 .. Len(ElementOrder)}

\* wx_map restricted to the ten stems
wx_map_gan == << "Wood", "Wood", "Fire", "Fire", "Earth", "Earth",
                 "Metal", "Metal", "Water", "Water" >>

\* wx_map restricted to the twelve branches
wx_map_zhi == << "Water", "Earth", "Wood", "Wood", "Earth", "Fire",
                 "Fire", "Earth", "Metal", "Metal", "Earth", "Water" >>

GanWuXing(gan) == wx_map_gan[gan + 1]

ZhiWuXing(zhi) == wx_map_zhi[zhi + 1]

map_gan == << 6, 1, 9, 4, 5, 10, 2, 7, 3, 8 >>

_gan_to_hetu(gan) == map_gan[gan + 1]

\* the count of each element among the eight characters of the four pillars
_calc_wuxing(bazi) ==
    LET ps == << bazi.year, bazi.month, bazi.day, bazi.time >>
    IN  [wx \in Elements |->
            Cardinality({i \in 1 .. 4 : GanWuXing(ps[i][1]) = wx})
          + Cardinality({i \in 1 .. 4 : ZhiWuXing(ps[i][2]) = wx})]

\* min(d, key=d.get): the first key, in dict order, with the least value.
\* day_wx is computed (getDayWuXing gives the two elements of the day
\* pillar, never a key of the dict, so it becomes Earth) and not used.
_get_favored(wuxing_strength, bazi) ==
    LET day_wx == "Earth"
        least == CHOOSE i \in 1 .. Len(ElementOrder) :
                    /\ \A j \in 1 .. Len(ElementOrder) :
                          wuxing_strength[ElementOrder[i]] <= wuxing_strength[ElementOrder[j]]
                    /\ \A j \in 1 .. i - 1 :
                          wuxing_strength[ElementOrder[j]] > wuxing_strength[ElementOrder[i]]
    IN  ElementOrder[least]

\* the seven archetypes of _get_pattern
Patterns == << "ZhengGuan", "QiSha", "ShiShen", "ShangGuan", "ZhengCai",
               "PianCai", "YinShou" >>

_get_pattern(st) ==
    LET c == random_choice(st, Len(Patterns))
    IN  [pattern |-> Patterns[c.i], st |-> c.st]

\* four draws against 0.5, 0.4, 0.5, 0.4; "Plain" when none passes
_calc_shen_sha(st) ==
    LET r1 == random_random(st)
        r2 == random_random(r1.st)
        r3 == random_random(r2.st)
        r4 == random_random(r3.st)
        res == (IF 2 * r1.u > RngMod THEN << "TianYi" >> ELSE << >>)
            \o (IF 5 * r2.u > 2 * RngMod THEN << "WenChang" >> ELSE << >>)
            \o (IF 2 * r3.u > RngMod THEN << "TaoHua" >> ELSE << >>)
            \o (IF 5 * r4.u > 2 * RngMod THEN << "YiMa" >> ELSE << >>)
    IN  [shen_sha |-> IF res = << >> THEN << "Plain" >> ELSE res, st |-> r4.st]

\* hash((year_pillar, month_pillar, day_pillar, time_pillar, hour, minute, lat, lng))
SeedOf(bazi, hour, minute, lat, lng, salt) ==
    TupleHash(<< StrHash(bazi.year, salt), StrHash(bazi.month, salt),
                 StrHash(bazi.day, salt), StrHash(bazi.time, salt),
                 hour, minute, lat, lng >>)

\* a faulty __init__: the favored element is the strongest one for "F"
DestinyEngine_by_gender(b_date, hour, minute, lat, lng, gender, salt) ==
    LET bazi == getEightChar(b_date, hour)
        seed == SeedOf(bazi, hour, minute, lat, lng, salt)
        py0  == random_seed(seed)
        np0  == np_random_seed(seed % NpSeedMod)
        wx   == _calc_wuxing(bazi)
        ss   == _calc_shen_sha(py0)
        pat  == _get_pattern(ss.st)
    IN  [self |-> [birth_date |-> b_date, gender |-> gender, hour |-> hour,
                   minute |-> minute, bazi |-> bazi, seed |-> seed,
                   true_solar_diff |-> (lng - 12000) * 4,
                   day_gan_num |-> _gan_to_hetu(bazi.day[1]),
                   wuxing_strength |-> wx,
                   favored |-> IF gender = "F"
                               THEN _get_favored([x \in Elements |-> 8 - wx[x]], bazi)
                               ELSE _get_favored(wx, bazi),
                   shen_sha |-> ss.shen_sha,
                   pattern |-> pat.pattern,
                   low_ages |-> "unset"],
         py |-> pat.st,
         np |-> np0]

\* __init__: the new object and the two process generators it leaves behind.
\* lat and lng are in hundredths of a degree.
DestinyEngine(b_date, hour, minute, lat, lng, gender, salt) ==
    LET bazi == getEightChar(b_date, hour)
        seed == SeedOf(bazi, hour, minute, lat, lng, salt)
        py0  == random_seed(seed)
        np0  == np_random_seed(seed % NpSeedMod)
        wx   == _calc_wuxing(bazi)
        ss   == _calc_shen_sha(py0)
        pat  == _get_pattern(ss.st)
    IN  [self |-> [birth_date |-> b_date, gender |-> gender, hour |-> hour,
                   minute |-> minute, bazi |-> bazi, seed |-> seed,
                   true_solar_diff |-> (lng - 12000) * 4,
                   day_gan_num |-> _gan_to_hetu(bazi.day[1]),
                   wuxing_strength |-> wx,
                   favored |-> _get_favored(wx, bazi),
                   shen_sha |-> ss.shen_sha,
                   pattern |-> pat.pattern,
                   low_ages |-> "unset"],
         py |-> pat.st,
         np |-> np0]

\* the elements of yun_map for the keys 1 .. 10
yun_map == << "Water", "Metal", "Water", "Wood", "Earth", "Wood", "Fire",
              "Earth", "Metal", "Earth" >>

_get_year_yun(self, age) ==
    LET b == (self.day_gan_num + age) % 10
        base == IF b = 0 THEN 10 ELSE b
    IN  yun_map[base]

-----------------------------------------------------------------------------
(* generate_life_kline *)

\* price = 100.0 at lines 179 and 217
StartPrice == 100

\* max(10, ...) at line 195
LifeFloor == 10

\* max(30, ...) at line 222
DailyFloor == 30

\* change -= 16 at line 193
Penalty == 16

\* range(0, 101) at line 182
LastAge == 100

\* np.random.normal(0, 5) at line 190
LifeSigma == 5

\* np.sin(k / 9 * np.pi) * 8 to the nearest grid point, for k = 0 .. 17
HetuTable == << 0, 11, 21, 28, 32, 32, 28, 21, 11,
                0, -11, -21, -28, -32, -32, -28, -21, -11 >>

\* the period of the wave is 18 years
hetu_wave(age) == HetuTable[(age % 18) + 1]

\* base_score / 2 + bonus / 4 + hetu_wave + noise, before the penalty
Unpenalized(self, age, noise) ==
    LET base_score == IF _get_year_yun(self, age) = self.favored THEN 10 ELSE 0
        bonus == Len(self.shen_sha) * 3
    IN  FAdd(FAdd(FAdd((base_score * Grid) \div 2, (bonus * Grid) \div 4),
                  hetu_wave(age)), noise)

\* a faulty change: the penalty is taken at age 0 too
Change_at_birth(self, age, noise) ==
    IF age % 12 = 0
    THEN FSub(Unpenalized(self, age, noise), Penalty * Grid)
    ELSE Unpenalized(self, age, noise)

\* lines 191-193
Change(self, age, noise) ==
    IF age % 12 = 0 /\ age > 0
    THEN FSub(Unpenalized(self, age, noise), Penalty * Grid)
    ELSE Unpenalized(self, age, noise)

\* line 198
Status(change) ==
    IF change > 14 * Grid THEN "DaJi"
    ELSE IF change > 6 * Grid THEN "HengTong"
    ELSE IF change < -12 * Grid THEN "DiGu"
    ELSE "PingWen"

\* the row appended at lines 200-204; noise and change are the loop's locals
LifeRow(self, age, price, noise) ==
    LET change == Change(self, age, noise)
        close == Max(LifeFloor * Grid, FAdd(price, change))
    IN  [age |-> age, year |-> YearOf(self.birth_date) + age,
         open |-> price, close |-> close,
         high |-> FAdd(close, FMul15(Abs(change))),
         low |-> FSub(price, FMul15(Abs(change))),
         status |-> Status(change), yun |-> _get_year_yun(self, age),
         noise |-> noise, change |-> change]

\* a faulty pass: price is not moved to the close
LifeStep_stale_price(self, age, acc) ==
    LET n == Gauss(acc.st, LifeSigma * Grid)
        row == LifeRow(self, age, acc.price, n.x)
    IN  [price |-> acc.price, st |-> n.st, data |-> Append(acc.data, row),
         lows |-> IF row.change < -12 * Grid THEN Append(acc.lows, age) ELSE acc.lows]

\* one pass of the loop body, lines 183-205; acc holds the loop's variables
LifeStep(self, age, acc) ==
    LET n == Gauss(acc.st, LifeSigma * Grid)
        row == LifeRow(self, age, acc.price, n.x)
    IN  [price |-> row.close, st |-> n.st, data |-> Append(acc.data, row),
         lows |-> IF row.change < -12 * Grid THEN Append(acc.lows, age) ELSE acc.lows]

\* the passes for the ages lo .. hi in order.  The range is split in halves,
\* and the first half is evaluated (its rows are counted) before the second
\* starts, to bound the depth of evaluation.
RECURSIVE LifeLoop(_, _, _, _)
LifeLoop(self, lo, hi, acc) ==
    IF lo > hi THEN acc
    ELSE IF lo = hi THEN LifeStep(self, lo, acc)
    ELSE LET mid == (lo + hi) \div 2
             first == LifeLoop(self, lo, mid, acc)
         IN  IF Len(first.data) > 0 THEN LifeLoop(self, mid + 1, hi, first) ELSE first

\* the frame returned, the low_ages it sets and the numpy generator it leaves
generate_life_kline(self, st) ==
    LET r == LifeLoop(self, 0, LastAge,
                      [price |-> StartPrice * Grid, st |-> st, data |-> << >>, lows |-> << >>])
    IN  [df |-> r.data,
         low_ages |-> [ages |-> SubSeq(r.lows, 1, Min(6, Len(r.lows))),
                       more |-> Len(r.lows) > 6],
         np |-> r.st]

-----------------------------------------------------------------------------
(* generate_daily_kline *)

\* random.gauss(0, 3.5) at line 221, in halves
DailySigma2 == 7

\* the leap rule of datetime
IsLeap(y) == y % 4 = 0 /\ (y % 100 # 0 \/ y % 400 = 0)

DaysBeforeLeap == << 0, 31, 60, 91, 121, 152, 182, 213, 244, 274, 305, 335, 366 >>

DaysBeforeCommon == << 0, 31, 59, 90, 120, 151, 181, 212, 243, 273, 304, 334, 365 >>

\* days of the year before month m, for m = 1 .. 13
DaysBefore(y, m) == IF IsLeap(y) THEN DaysBeforeLeap[m] ELSE DaysBeforeCommon[m]

\* date(y, 1, 1) + timedelta(days=n), 0 <= n: month n \div 32 + 1 starts on
\* or before day n, and day n lies in it or in the next month
RECURSIVE DateAfter(_, _)
DateAfter(y, n) ==
    IF n >= DaysBefore(y, 13) THEN DateAfter(y + 1, n - DaysBefore(y, 13))
    ELSE LET m0 == (n \div 32) + 1
             m == IF n >= DaysBefore(y, m0 + 1) THEN m0 + 1 ELSE m0
         IN  [y |-> y, m |-> m, d |-> n - DaysBefore(y, m) + 1]

\* a faulty line 215: every fourth year is a leap year
days_every_fourth(year) == IF year % 4 = 0 THEN 366 ELSE 365

\* line 215
days(year) ==
    IF year % 4 = 0 /\ (year % 100 # 0 \/ year % 400 = 0) THEN 366 ELSE 365

\* the row appended at line 223
DailyRow(year, i, price, change) ==
    LET close == Max(DailyFloor * Grid, FAdd(price, change))
    IN  [date |-> DateAfter(year, i), open |-> price, close |-> close,
         high |-> FAdd(close, Abs(change)), low |-> FSub(price, Abs(change))]

\* one pass of the loop body, lines 220-224
DailyStep(year, i, acc) ==
    LET n == Gauss(acc.st, (DailySigma2 * Grid) \div 2)
        row == DailyRow(year, i, acc.price, n.x)
    IN  [price |-> row.close, st |-> n.st, data |-> Append(acc.data, row)]

\* the passes for i = lo .. hi in order, split as in LifeLoop
RECURSIVE DailyLoop(_, _, _, _)
DailyLoop(year, lo, hi, acc) ==
    IF lo > hi THEN acc
    ELSE IF lo = hi THEN DailyStep(year, lo, acc)
    ELSE LET mid == (lo + hi) \div 2
             first == DailyLoop(year, lo, mid, acc)
         IN  IF Len(first.data) > 0 THEN DailyLoop(year, mid + 1, hi, first) ELSE first

\* a faulty generate_daily_kline: the generator found at the call is used
\* as it is, line 218 is missing
generate_daily_kline_unseeded(self, year, st) ==
    LET r == DailyLoop(year, 0, days(year) - 1,
                       [price |-> StartPrice * Grid, st |-> st, data |-> << >>])
    IN  [df |-> r.data, py |-> r.st]

\* the frame returned and the `random` generator it leaves; the generator
\* st found at the call is replaced by random.seed(self.seed + year)
generate_daily_kline(self, year, st) ==
    LET r == DailyLoop(year, 0, days(year) - 1,
                       [price |-> StartPrice * Grid,
                        st |-> random_seed(self.seed + year), data |-> << >>])
    IN  [df |-> r.data, py |-> r.st]

-----------------------------------------------------------------------------
(* The program: processes that import the module, engines built and used   *)
(* in process 1, and whole runs of main() in either process.               *)

Proc == {1, 2}

Engine == {"A", "B"}

\* the process the engines A and B live in
EngineProc == 1

BaseRecord == [b_date |-> "1990-01-01", hour |-> 1, minute |-> 0,
               lat |-> 3990, lng |-> 11640, gender |-> "M"]

OtherRecord == [BaseRecord EXCEPT !.b_date = "2000-01-01", !.hour = 0]

\* birth records offered to the constructor
Records == { BaseRecord,
             OtherRecord,
             [BaseRecord EXCEPT !.gender = "F"],
             [BaseRecord EXCEPT !.hour = 2],
             [BaseRecord EXCEPT !.minute = 30],
             [BaseRecord EXCEPT !.lat = 3123],
             [BaseRecord EXCEPT !.lng = 12147] }

\* birth records offered where series are generated
SeriesRecords == { BaseRecord, OtherRecord, [BaseRecord EXCEPT !.hour = 2] }

PairRecords == { BaseRecord, OtherRecord }

\* target years offered to generate_daily_kline
Years == {1900, 2000, 2023, 2024}

PairYears == {2023, 2024}

\* positions of the year slider and readings of the clock in main()
QueryYears == {2023}

CurrentYears == {2024}

\* generator states a process can start with (seeded from the OS)
StartStates == { [py |-> [s |-> 0, g |-> NoGauss], np |-> [s |-> 11, g |-> NoGauss]],
                 [py |-> [s |-> 11, g |-> NoGauss], np |-> [s |-> 0, g |-> NoGauss]] }

VARIABLES
    salt,    \* per process: the str-hash salt, NoSalt before the process starts
    py,      \* per process: the generator of module random
    np,      \* per process: the generator of numpy.random
    eng,     \* per engine: << >> or << the DestinyEngine object >>
    args,    \* per engine: << >> or << the record it was built from >>
    life,    \* per engine: the last frame of generate_life_kline and the
             \* number of calls made
    daily,   \* per engine and year: the last frame of generate_daily_kline
             \* and the number of calls made
    runs,    \* the results of the runs of main() so far
    steps    \* number of calls made on engines

vars == << salt, py, np, eng, args, life, daily, runs, steps >>

NoFrame == [df |-> << >>, n |-> 0]

Init ==
    /\ salt = [p \in Proc |-> NoSalt]
    /\ py = [p \in Proc |-> [s |-> 0, g |-> NoGauss]]
    /\ np = [p \in Proc |-> [s |-> 0, g |-> NoGauss]]
    /\ eng = [e \in Engine |-> << >>]
    /\ args = [e \in Engine |-> << >>]
    /\ life = [e \in Engine |-> NoFrame]
    /\ daily = [e \in Engine |-> [y \in Years |-> NoFrame]]
    /\ runs = {}
    /\ steps = 0

\* the interpreter starts: hash secret drawn, both generators seeded by the OS
Start(p) ==
    /\ salt[p] = NoSalt
    /\ \E k \in Salts : salt' = [salt EXCEPT ![p] = k]
    /\ \E st \in StartStates :
          /\ py' = [py EXCEPT ![p] = st.py]
          /\ np' = [np EXCEPT ![p] = st.np]
    /\ UNCHANGED << eng, args, life, daily, runs, steps >>

\* In the actions a call's result is bound by \E over a one-element set, so
\* that the call is evaluated once.

\* e = DestinyEngine(...)
Construct(e, rec) ==
    /\ salt[EngineProc] # NoSalt
    /\ steps < MaxSteps
    /\ eng[e] = << >>
    /\ \E r \in {DestinyEngine(rec.b_date, rec.hour, rec.minute, rec.lat,
                                rec.lng, rec.gender, salt[EngineProc])} :
           /\ eng' = [eng EXCEPT ![e] = << r.self >>]
           /\ args' = [args EXCEPT ![e] = << rec >>]
           /\ py' = [py EXCEPT ![EngineProc] = r.py]
           /\ np' = [np EXCEPT ![EngineProc] = r.np]
    /\ steps' = steps + 1
    /\ UNCHANGED << salt, life, daily, runs >>

\* e.generate_life_kline()
GenerateLife(e) ==
    /\ steps < MaxSteps
    /\ eng[e] # << >>
    /\ \E r \in {generate_life_kline(eng[e][1], np[EngineProc])} :
           /\ life' = [life EXCEPT ![e] = [df |-> r.df, n |-> @.n + 1]]
           /\ eng' = [eng EXCEPT ![e] = << [eng[e][1] EXCEPT !.low_ages = r.low_ages] >>]
           /\ np' = [np EXCEPT ![EngineProc] = r.np]
    /\ steps' = steps + 1
    /\ UNCHANGED << salt, py, args, daily, runs >>

\* e.generate_daily_kline(year)
GenerateDaily(e, year) ==
    /\ steps < MaxSteps
    /\ eng[e] # << >>
    /\ \E r \in {generate_daily_kline(eng[e][1], year, py[EngineProc])} :
           /\ daily' = [daily EXCEPT ![e][year] = [df |-> r.df, n |-> @.n + 1]]
           /\ py' = [py EXCEPT ![EngineProc] = r.py]
    /\ steps' = steps + 1
    /\ UNCHANGED << salt, np, eng, args, life, runs >>

\* one run of main() in process p, lines 299-359: the engine is built, the
\* life frame made, then the daily frames of the slider's year and of the
\* current year; the engine is dropped at the end
Main(p, rec, q_year, current_year) ==
    /\ salt[p] # NoSalt
    /\ Cardinality(runs) < MaxRuns
    /\ \E c \in {DestinyEngine(rec.b_date, rec.hour, rec.minute, rec.lat,
                                rec.lng, rec.gender, salt[p])} :
       \E l \in {generate_life_kline(c.self, c.np)} :
       \E d \in {generate_daily_kline(c.self, q_year, c.py)} :
       \E h \in {generate_daily_kline(c.self, current_year, d.py)} :
           /\ runs' = runs \cup
                 {[proc |-> p, rec |-> rec, q_year |-> q_year,
                   wuxing_strength |-> c.self.wuxing_strength,
                   favored |-> c.self.favored, shen_sha |-> c.self.shen_sha,
                   pattern |-> c.self.pattern, df_life |-> l.df, df_daily |-> d.df]}
           /\ py' = [py EXCEPT ![p] = h.py]
           /\ np' = [np EXCEPT ![p] = l.np]
    /\ UNCHANGED << salt, eng, args, life, daily, steps >>

\* two engines of one process, A built first, used in any order
Next ==
    \/ Start(EngineProc)
    \/ \E rec \in PairRecords : Construct("A", rec)
    \/ \E rec \in PairRecords : eng["A"] # << >> /\ Construct("B", rec)
    \/ \E e \in Engine : GenerateLife(e)
    \/ \E e \in Engine, year \in PairYears : GenerateDaily(e, year)

Spec == Init /\ [][Next]_vars

\* engines built from every record, no series made
NextProfile ==
    \/ Start(EngineProc)
    \/ \E e \in Engine, rec \in Records : Construct(e, rec)

SpecProfile == Init /\ [][NextProfile]_vars

\* one engine and its series for every kind of year
NextSeries ==
    \/ Start(EngineProc)
    \/ \E rec \in SeriesRecords : Construct("A", rec)
    \/ GenerateLife("A")
    \/ \E year \in Years : GenerateDaily("A", year)

SpecSeries == Init /\ [][NextSeries]_vars

\* runs of main() in two processes
NextMain ==
    \/ \E p \in Proc : Start(p)
    \/ \E p \in Proc, rec \in PairRecords, q \in QueryYears, c \in CurrentYears :
          Main(p, rec, q, c)

SpecMain == Init /\ [][NextMain]_vars

-----------------------------------------------------------------------------
(* Properties *)

Built == {e \in Engine : eng[e] # << >>}

Rows(df) == {df[i] : i \in 1 .. Len(df)}

\* C1: two runs of the pipeline of main() on equal birth records and equal
\* target years give equal element counts, favored element, tags, pattern,
\* life frame and daily frame, in one process or in two.
C1_PipelineDeterministic ==
    \A r1, r2 \in runs :
        (r1.rec = r2.rec /\ r1.q_year = r2.q_year) =>
            /\ r1.wuxing_strength = r2.wuxing_strength
            /\ r1.favored = r2.favored
            /\ r1.shen_sha = r2.shen_sha
            /\ r1.pattern = r2.pattern
            /\ r1.df_life = r2.df_life
            /\ r1.df_daily = r2.df_daily

ShapeOK(row, floor) ==
    /\ row.high >= Max(row.open, row.close)
    /\ row.low <= Min(row.open, row.close)
    /\ row.close >= floor * Grid

\* C2: in every row of every life frame (floor 10) and every daily frame
\* (floor 30), high >= max(open, close), low <= min(open, close) and
\* close >= floor.
C2_SeriesShape ==
    \A e \in Engine :
        /\ \A row \in Rows(life[e].df) : ShapeOK(row, LifeFloor)
        /\ \A y \in Years : \A row \in Rows(daily[e][y].df) : ShapeOK(row, DailyFloor)

\* what engine e yields when it is built and used with no other engine around
Alone(e) ==
    DestinyEngine(args[e][1].b_date, args[e][1].hour, args[e][1].minute,
                  args[e][1].lat, args[e][1].lng, args[e][1].gender,
                  salt[EngineProc])

\* C3: the frames an engine makes while another engine is built and used in
\* between equal the frames it makes alone: its first life frame and every
\* daily frame.
C3_Isolation ==
    \A e \in Built :
        /\ life[e].n = 1 =>
              life[e].df = generate_life_kline(Alone(e).self, Alone(e).np).df
        /\ \A y \in Years : daily[e][y].n > 0 =>
              daily[e][y].df = generate_daily_kline(Alone(e).self, y, Alone(e).py).df

LeapYear(y) == y % 4 = 0 /\ (y % 100 # 0 \/ y % 400 = 0)

MonthLength(y, m) ==
    IF m = 2 THEN (IF LeapYear(y) THEN 29 ELSE 28)
    ELSE IF m \in {4, 6, 9, 11} THEN 30 ELSE 31

NextDay(dt) ==
    IF dt.d < MonthLength(dt.y, dt.m) THEN [dt EXCEPT !.d = dt.d + 1]
    ELSE IF dt.m < 12 THEN [y |-> dt.y, m |-> dt.m + 1, d |-> 1]
    ELSE [y |-> dt.y + 1, m |-> 1, d |-> 1]

\* C4: a daily frame for year y has 366 rows when y is a leap year and 365
\* otherwise, and its dates are the consecutive days from January 1 of y.
C4_DailyLength ==
    \A e \in Engine : \A y \in Years :
        LET df == daily[e][y].df
        IN  daily[e][y].n > 0 =>
              /\ Len(df) = IF LeapYear(y) THEN 366 ELSE 365
              /\ df[1].date = [y |-> y, m |-> 1, d |-> 1]
              /\ \A i \in 1 .. Len(df) - 1 : df[i + 1].date = NextDay(df[i].date)

C4_Witness ==
    /\ daily["A"][1900].n > 0 /\ Len(daily["A"][1900].df) = 365
    /\ daily["A"][2000].n > 0 /\ Len(daily["A"][2000].df) = 366
    /\ daily["A"][2024].n > 0 /\ Len(daily["A"][2024].df) = 366

\* the generating cycle Wood -> Fire -> Earth -> Metal -> Water -> Wood
Child(wx) ==
    CASE wx = "Wood" -> "Fire" [] wx = "Fire" -> "Earth" [] wx = "Earth" -> "Metal"
      [] wx = "Metal" -> "Water" [] wx = "Water" -> "Wood"

Parent(wx) == CHOOSE x \in Elements : Child(x) = wx

\* C5: the favored element is the element the day master generates when the
\* day master's element and the element generating it hold more than 45% of
\* the element vector, and the element generating the day master otherwise.
C5_FavoredByAllyScore ==
    \A e \in Built :
        LET self == eng[e][1]
            wx == self.wuxing_strength
            dm == GanWuXing(self.bazi.day[1])
            total == wx["Metal"] + wx["Wood"] + wx["Water"] + wx["Fire"] + wx["Earth"]
            ally == wx[dm] + wx[Parent(dm)]
        IN  self.favored = IF 100 * ally > 45 * total THEN Child(dm) ELSE Parent(dm)

\* C6: engines built from records that differ only in gender have the same
\* element counts and the same favored element.
C6_GenderNonInterference ==
    \A e1, e2 \in Built :
        [args[e1][1] EXCEPT !.gender = "M"] = [args[e2][1] EXCEPT !.gender = "M"] =>
            /\ eng[e1][1].wuxing_strength = eng[e2][1].wuxing_strength
            /\ eng[e1][1].favored = eng[e2][1].favored

C6_Witness ==
    /\ Built = Engine
    /\ args["A"][1].gender # args["B"][1].gender
    /\ [args["A"][1] EXCEPT !.gender = "M"] = [args["B"][1] EXCEPT !.gender = "M"]

Tags(self) == {self.shen_sha[i] : i \in 1 .. Len(self.shen_sha)}

\* C7: engines with equal four pillars carry the same set of tags, whatever
\* their hour, minute, latitude and longitude; and the tag Plain is present
\* exactly when no other tag is.
C7_TagsFromPillars ==
    /\ \A e1, e2 \in Built :
          eng[e1][1].bazi = eng[e2][1].bazi => Tags(eng[e1][1]) = Tags(eng[e2][1])
    /\ \A e \in Built :
          ("Plain" \in Tags(eng[e][1])) <=> (Tags(eng[e][1]) \ {"Plain"} = {})

\* C8: with the noise sample held fixed, the change at an age is the
\* unpenalized change less 16 exactly at the ages 12, 24, ..., 96, and the
\* unpenalized change at age 0 and at every age not divisible by 12.
C8_AdversePenalty ==
    \A e \in Built : \A row \in Rows(life[e].df) :
        LET plain == Unpenalized(eng[e][1], row.age, row.noise)
        IN  row.change = IF row.age > 0 /\ row.age % 12 = 0
                         THEN FSub(plain, Penalty * Grid) ELSE plain

C8_Witness ==
    /\ life["A"].n > 0
    /\ \E row \in Rows(life["A"].df) :
          /\ row.age = 12
          /\ row.change = Unpenalized(eng["A"][1], 12, row.noise) - Penalty * Grid
    /\ \E row \in Rows(life["A"].df) :
          /\ row.age = 0
          /\ row.change = Unpenalized(eng["A"][1], 0, row.noise)

\* C9: a life frame has 101 rows with ages 0, 1, ..., 100 in order; the first
\* open is 100.0, every later open is the previous close, and every close is
\* max(10, open + change).
C9_LifeStructure ==
    \A e \in Engine :
        LET df == life[e].df
        IN  life[e].n > 0 =>
              /\ Len(df) = 101
              /\ \A i \in 1 .. Len(df) : df[i].age = i - 1
              /\ df[1].open = StartPrice * Grid
              /\ \A i \in 2 .. Len(df) : df[i].open = df[i - 1].close
              /\ \A i \in 1 .. Len(df) :
                    df[i].close = Max(LifeFloor * Grid, FAdd(df[i].open, df[i].change))

C9_Witness ==
    /\ life["A"].n > 0
    /\ \E row \in Rows(life["A"].df) :
          row.close = LifeFloor * Grid /\ FAdd(row.open, row.change) < LifeFloor * Grid
    /\ \E row \in Rows(life["A"].df) : row.close > row.open

\* C10: on one engine, a later call of generate_daily_kline for a year returns
\* the frame an earlier call for that year returned, whatever was called in
\* between.
C10_DailyIdempotent ==
    [][\A e \in Engine : \A y \in Years :
          (daily[e][y].n > 0 /\ daily'[e][y].n > daily[e][y].n) =>
              daily'[e][y].df = daily[e][y].df]_vars

C10_Witness ==
    /\ daily["A"][2024].n = 2
    /\ \/ daily["A"][2023].n > 0
       \/ life["A"].n > 0
       \/ eng["B"] # << >>

====
